---- MODULE Spec2Model ----
(***************************************************************************)
(* OCSFExporter (src/assessment/ocsf-exporter.js): the exporter that maps  *)
(* an assessment's results and answers onto OCSF findings (classes 2003    *)
(* and 2006), modelled as a state machine.  The state is the exporter      *)
(* object, the caller's results and answers objects, the clock behind      *)
(* Date.now(), and the value returned by the last export call.             *)
(*                                                                         *)
(* JavaScript values are tagged records, so that values of different       *)
(* JavaScript types can meet in one field and be compared:                 *)
(*   Undefined, Bool(b), Num(n), Str(s), Arr(a), Inherited(k).             *)
(* A string is one of three shapes: Str(s), an atomic text (a literal of   *)
(* the source or a text of the input); Chars(c), a text built character    *)
(* by character (the uids); Template(p), a template literal kept as the    *)
(* sequence of its parts.  The Hebrew literals of the source are written   *)
(* as ASCII stand-ins, "he:<meaning>".                                     *)
(* A JavaScript object is a function from its own property names to        *)
(* values; an absent property is a name outside its DOMAIN.                *)
(***************************************************************************)
EXTENDS Integers, Sequences, FiniteSets, TLC

VARIABLES
    exporter,       \* the OCSFExporter object: this.version, this.product
    callerResults,  \* the results object the caller passes to the exports
    callerAnswers,  \* the answers object the caller passes to the exports
    given,          \* the two objects as the caller built them
    clock,          \* the value Date.now() returns next
    out,            \* the last export call: operation, Date.now() values, return value
    reports         \* the combined reports made while the clock stood at its present value

vars == <<exporter, callerResults, callerAnswers, given, clock, out, reports>>

(***************************************************************************)
(* Bounds of the model.                                                    *)
(***************************************************************************)
MaxViolations == 2

MaxRecs == 1

\* Date.now() runs from MaxClock - ClockSpan to MaxClock.
MaxClock == 10

ClockSpan == 1

\* The combined reports remembered for comparison.
MaxReports == 2

(***************************************************************************)
(* JavaScript values.                                                      *)
(***************************************************************************)
Undefined == [t |-> "undefined"]

Bool(b) == [t |-> "boolean", b |-> b]

Num(n) == [t |-> "number", n |-> n]

Str(s) == [t |-> "string", s |-> s]

Chars(c) == [t |-> "string", chars |-> c]

Template(p) == [t |-> "string", parts |-> p]

Arr(a) == [t |-> "array", a |-> a]

\* A member of Object.prototype, found through the prototype chain of an
\* object literal (a function, or for __proto__ the prototype object).
Inherited(k) == [t |-> "inherited", k |-> k]

ObjectPrototype ==
    {"constructor", "toString", "toLocaleString", "valueOf", "hasOwnProperty",
     "isPrototypeOf", "propertyIsEnumerable", "__proto__"}

\* ToBoolean
Truthy(v) ==
    CASE v.t = "undefined" -> FALSE
      [] v.t = "boolean" -> v.b
      [] v.t = "number" -> v.n # 0
      [] v.t = "string" ->
            \* the built strings all hold some literal text
            IF "s" \in DOMAIN v THEN v.s # "" ELSE TRUE
      [] OTHER -> TRUE

\* a || b
Or(a, b) == IF Truthy(a) THEN a ELSE b

\* obj.key for an input object: own properties only matter for the inputs
\* the model draws, whose absent properties read as undefined.
Get(obj, key) == IF key \in DOMAIN obj THEN obj[key] ELSE Undefined

\* ToPropertyKey of the values used as keys of the lookup tables.
ToPropertyKey(v) ==
    CASE v.t = "undefined" -> "undefined"
      [] v.t = "string" /\ "s" \in DOMAIN v -> v.s
      [] OTHER -> "[other]"

\* table[key] for an object literal `table`: an own property, else a member
\* of Object.prototype, else undefined.
Lookup(table, v) ==
    LET key == ToPropertyKey(v)
    IN  IF key \in DOMAIN table THEN table[key]
        ELSE IF key \in ObjectPrototype THEN Inherited(key)
        ELSE Undefined

\* array.includes(x)
Includes(array, x) == \E i \in 1..Len(array) : array[i] = x

\* String(n) for an integer n >= 0, character by character.
Digit(d) ==
    CASE d = 0 -> "0" [] d = 1 -> "1" [] d = 2 -> "2" [] d = 3 -> "3"
      [] d = 4 -> "4" [] d = 5 -> "5" [] d = 6 -> "6" [] d = 7 -> "7"
      [] d = 8 -> "8" [] d = 9 -> "9"

RECURSIVE NumberToString(_)
NumberToString(n) ==
    IF n < 10 THEN <<Digit(n)>>
    ELSE NumberToString(n \div 10) \o <<Digit(n % 10)>>

\* new Date(timestamp).toISOString(), kept as the instant it renders.
ToISOString(timestamp) == [t |-> "string", iso |-> timestamp]

\* n.toLocaleString(), kept as the number it renders.
ToLocaleString(n) == [t |-> "string", locale |-> n]

\* array.join(sep), kept as the elements and the separator.
Join(array, sep) == [t |-> "string", join |-> array, sep |-> sep]

(***************************************************************************)
(* constructor                                                             *)
(***************************************************************************)
constructor ==
    [version |-> Str("1.6.0"),
     product |-> [name |-> Str("Tikun13 Compliance Checker"),
                  vendor_name |-> Str("Amendment 13 Assessment Tool"),
                  version |-> Str("1.0.0")]]

(***************************************************************************)
(* Mapping functions                                                       *)
(***************************************************************************)
mapSeverity(severity) ==
    LET mapping == [critical |-> Num(5), high |-> Num(4), medium |-> Num(3),
                    low |-> Num(2), info |-> Num(1)]
    IN  Or(Lookup(mapping, severity), Num(0))

mapImpact(severity) ==
    LET mapping == [critical |-> Num(4), high |-> Num(3), medium |-> Num(2),
                    low |-> Num(1), info |-> Num(0)]
    IN  Or(Lookup(mapping, severity), Num(0))

mapRiskLevel(riskLabel) ==
    LET mapping == ("he:critical" :> Num(4)) @@ ("he:very high" :> Num(4)) @@
                   ("he:high" :> Num(3)) @@ ("he:medium" :> Num(2)) @@
                   ("he:low" :> Num(1)) @@ ("he:minimal" :> Num(0))
    IN  Or(Lookup(mapping, riskLabel), Num(0))

(***************************************************************************)
(* Helper functions                                                        *)
(***************************************************************************)
getDetailedDescription(violation) ==
    LET fine == Get(violation, "fine")
        rendered == IF fine = Undefined THEN Undefined ELSE ToLocaleString(fine.n)
    IN  Template(<<Get(violation, "description"),
                   Str(". he:law section: "),
                   Or(Get(violation, "law_reference"), Str("he:general")),
                   Str(". he:category: "),
                   Get(violation, "category"),
                   Str(". he:potential fine: NIS"),
                   Or(rendered, Str("0"))>>)

getRemediationText(violation, recommendations) ==
    LET Relevant(r) == Get(r, "category") = Get(violation, "category")
        relevantRecs == SelectSeq(recommendations, Relevant)
    IN  IF Len(relevantRecs) > 0
        THEN Join([i \in 1..Len(relevantRecs) |-> Get(relevantRecs[i], "action")], "; ")
        ELSE Template(<<Str("he:the violation is to be fixed as required by "),
                        Or(Get(violation, "law_reference"), Str("he:amendment 13"))>>)

getKnowledgeBaseArticles(category) ==
    LET articles ==
          [dpo |-> Arr(<<Str("https://www.gov.il/he/departments/guides/data_protection_officer")>>),
           registration |-> Arr(<<Str("https://www.gov.il/he/service/database_registration")>>),
           security |-> Arr(<<Str("https://www.gov.il/he/departments/guides/data_security_regulations")>>),
           consent |-> Arr(<<Str("https://www.gov.il/he/departments/guides/consent_management")>>),
           access_rights |-> Arr(<<Str("https://www.gov.il/he/departments/guides/data_subject_rights")>>),
           privacy_notice |-> Arr(<<Str("https://www.gov.il/he/departments/guides/privacy_policy_requirements")>>)]
    IN  Or(Lookup(articles, category),
           Arr(<<Template(<<Str("tikun13-"), category, Str("-guide")>>)>>))

getOrganizationType(orgType) ==
    LET types == [public |-> Str("he:public body"), private |-> Str("he:private company"),
                  databroker |-> Str("he:data broker"), security |-> Str("he:security body"),
                  financial |-> Str("he:financial institution"),
                  healthcare |-> Str("he:medical institution")]
    IN  Or(Lookup(types, orgType), Str("he:organisation"))

getDataScale(dataSubjectsCount) ==
    LET scales == ("less_10k" :> Str("Small (<10K)")) @@
                  ("10k_100k" :> Str("Medium (10K-100K)")) @@
                  ("100k_500k" :> Str("Large (100K-500K)")) @@
                  ("500k_1m" :> Str("Very Large (500K-1M)")) @@
                  ("over_1m" :> Str("Enterprise (>1M)"))
    IN  Or(Lookup(scales, dataSubjectsCount), Str("Unknown"))

getDataSecurityCategory(violationCategory) ==
    LET categories == [consent |-> Str("Consent Management"),
                       data_subjects |-> Str("Data Subject Rights"),
                       access_rights |-> Str("Access Control"),
                       data_minimization |-> Str("Data Minimization"),
                       privacy_notice |-> Str("Privacy Notice"),
                       third_party |-> Str("Third Party Sharing")]
    IN  Or(Lookup(categories, violationCategory), Str("Privacy Violation"))

\* getConfidentialityLevel with the two checks in the other order
getConfidentialityLevelFinancialFirst(sensitiveData) ==
    IF ~Truthy(sensitiveData) \/ Len(sensitiveData.a) = 0 THEN Num(1)
    ELSE IF Includes(sensitiveData.a, Str("financial"))
            \/ Includes(sensitiveData.a, Str("criminal")) THEN Num(3)
    ELSE IF Includes(sensitiveData.a, Str("medical"))
            \/ Includes(sensitiveData.a, Str("biometric")) THEN Num(4)
    ELSE Num(2)

getConfidentialityLevel(sensitiveData) ==
    IF ~Truthy(sensitiveData) \/ Len(sensitiveData.a) = 0 THEN Num(1)
    ELSE IF Includes(sensitiveData.a, Str("medical"))
            \/ Includes(sensitiveData.a, Str("biometric")) THEN Num(4)
    ELSE IF Includes(sensitiveData.a, Str("financial"))
            \/ Includes(sensitiveData.a, Str("criminal")) THEN Num(3)
    ELSE Num(2)

getDataViolationDescription(violation, answers) ==
    LET sensitive == Get(answers, "sensitive_data")
        count == Get(answers, "data_subjects_count")
        desc0 == <<Get(violation, "description")>>
        desc1 == IF Truthy(sensitive) /\ Len(sensitive.a) > 0
                 THEN desc0 \o <<Str(". he:sensitive data: "), Join(sensitive.a, ", ")>>
                 ELSE desc0
        desc2 == IF Truthy(count)
                 THEN desc1 \o <<Str(". he:number of data subjects: "), getDataScale(count)>>
                 ELSE desc1
    IN  IF Len(desc2) = 1 THEN desc2[1] ELSE Template(desc2)

getAffectedResources(violation, answers) ==
    LET category == Get(violation, "category")
        resources1 ==
          IF category = Str("data_subjects") \/ category = Str("consent")
          THEN <<[type |-> Str("Database"),
                  name |-> Str("Personal Data Repository"),
                  uid |-> Str("pdr-001"),
                  criticality |-> IF Truthy(Get(answers, "sensitive_data"))
                                  THEN Num(4) ELSE Num(2)]>>
          ELSE <<>>
        resources2 ==
          IF category = Str("third_party")
          THEN resources1 \o <<[type |-> Str("Third Party Integration"),
                                name |-> Str("External Data Processors"),
                                uid |-> Str("ext-proc-001"),
                                criticality |-> Num(3)]>>
          ELSE resources1
    IN  resources2

requiresDPO(answers) ==
    LET orgType == Get(answers, "org_type")
        sensitive == Get(answers, "sensitive_data")
        scale == IF ~Truthy(sensitive) THEN sensitive
                 ELSE IF ~(Len(sensitive.a) > 0) THEN Bool(FALSE)
                 ELSE Bool(Includes(<<Str("100k_500k"), Str("500k_1m"), Str("over_1m")>>,
                                    Get(answers, "data_subjects_count")))
    IN  Or(Bool(orgType = Str("public")), Or(Bool(orgType = Str("databroker")), scale))

\* sanitizeAnswers deleting organization_name only
sanitizeAnswersKeepingContact(answers) ==
    [ret |-> [k \in DOMAIN answers \ {"organization_name"} |-> answers[k]],
     answers |-> answers]

\* sanitizeAnswers deleting from the argument, with no copy made
sanitizeAnswersInPlace(answers) ==
    LET deleted == {"organization_name", "contact_details"}
        sanitized == [k \in DOMAIN answers \ deleted |-> answers[k]]
    IN  [ret |-> sanitized, answers |-> sanitized]

\* The copy with the two properties deleted, and the argument object as the
\* call leaves it.
sanitizeAnswers(answers) ==
    LET sanitized == answers
        deleted == {"organization_name", "contact_details"}
    IN  [ret |-> [k \in DOMAIN sanitized \ deleted |-> sanitized[k]],
         answers |-> answers]

(***************************************************************************)
(* Findings.  `timestamp` is the value Date.now() returns in the call.     *)
(***************************************************************************)
\* results.riskLevel?.label
riskLabel(results) ==
    IF "riskLevel" \in DOMAIN results THEN Get(results.riskLevel, "label") ELSE Undefined

\* complianceUid without the index: `tikun13-${timestamp}`
complianceUidWithoutIndex(timestamp, index) ==
    Chars(<<"t", "i", "k", "u", "n", "1", "3", "-">> \o NumberToString(timestamp))

\* `tikun13-${timestamp}-${index}`
complianceUid(timestamp, index) ==
    Chars(<<"t", "i", "k", "u", "n", "1", "3", "-">> \o NumberToString(timestamp)
          \o <<"-">> \o NumberToString(index))

\* `tikun13-data-${timestamp}-${index}`
dataSecurityUid(timestamp, index) ==
    Chars(<<"t", "i", "k", "u", "n", "1", "3", "-", "d", "a", "t", "a", "-">>
          \o NumberToString(timestamp) \o <<"-">> \o NumberToString(index))

\* `rec-${Date.now()}-${index}`
recommendationUid(timestamp, index) ==
    Chars(<<"r", "e", "c", "-">> \o NumberToString(timestamp)
          \o <<"-">> \o NumberToString(index))

\* impactScore without the default: violation.fine
impactScoreWithoutDefault(violation) == Get(violation, "fine")

\* violation.fine || 0
impactScore(violation) == Or(Get(violation, "fine"), Num(0))

\* The finding, and the answers object as the call leaves it.
createComplianceFinding(this, violation, index, results, answers, timestamp) ==
    LET sanitize == sanitizeAnswers(answers)
    IN  [ret |->
           [activity_id |-> Num(1),
            category_uid |-> Num(2),
            class_uid |-> Num(2003),
            time |-> Num(timestamp),
            severity_id |-> mapSeverity(Get(violation, "severity")),
            type_uid |-> Num(200301),
            compliance |->
              [requirements |-> Arr(<<Str("Israeli Privacy Protection Law - Amendment 13")>>),
               control |-> Or(Get(violation, "law_reference"), Str("General Requirement")),
               standards |-> Arr(<<Str("IL-PPL-Amendment-13-2025")>>),
               status |-> Str("Non-Compliant"),
               status_detail |-> Get(violation, "description")],
            finding_info |->
              [title |-> Get(violation, "description"),
               uid |-> complianceUid(timestamp, index),
               desc |-> getDetailedDescription(violation),
               types |-> Arr(<<Get(violation, "category")>>),
               created_time |-> Num(timestamp),
               modified_time |-> Num(timestamp),
               product_uid |-> Str("tikun13-checker")],
            risk_level_id |-> mapRiskLevel(riskLabel(results)),
            impact_id |-> mapImpact(Get(violation, "severity")),
            confidence_id |-> Num(3),
            status_id |-> Num(1),
            disposition_id |-> Num(99),
            remediation |->
              [desc |-> getRemediationText(violation, results.recommendations),
               kb_articles |-> getKnowledgeBaseArticles(Get(violation, "category"))],
            impact_score |-> impactScore(violation),
            metadata |->
              [version |-> this.version,
               product |-> this.product,
               original_time |-> ToISOString(timestamp),
               processed_time |-> Num(timestamp),
               log_name |-> Str("Amendment13ComplianceAssessment"),
               log_provider |-> Str("Tikun13Checker")],
            organization |->
              [name |-> getOrganizationType(Get(answers, "org_type")),
               ou_name |-> getDataScale(Get(answers, "data_subjects_count"))],
            unmapped |->
              [fine_amount_ils |-> Get(violation, "fine"),
               violation_category |-> Get(violation, "category"),
               sensitive_data_types |-> Or(Get(answers, "sensitive_data"), Arr(<<>>)),
               compliance_score |-> Get(results, "score"),
               assessment_answers |-> sanitize.ret]],
         answers |-> sanitize.answers]

\* isSuspectedBreach for consent alone
isSuspectedBreachConsentOnly(violation) ==
    Includes(<<Str("consent")>>, Get(violation, "category"))

isSuspectedBreach(violation) ==
    Includes(<<Str("consent"), Str("data_subjects")>>, Get(violation, "category"))

createDataSecurityFinding(this, violation, index, results, answers, timestamp) ==
    LET breach == isSuspectedBreach(violation)
    IN  [activity_id |-> Num(2),
         category_uid |-> Num(2),
         class_uid |-> Num(2006),
         time |-> Num(timestamp),
         severity_id |-> mapSeverity(Get(violation, "severity")),
         type_uid |-> Num(200602),
         data_security |->
           [category_name |-> getDataSecurityCategory(Get(violation, "category")),
            confidentiality_id |-> getConfidentialityLevel(Get(answers, "sensitive_data")),
            detection_system |-> Str("Amendment 13 Compliance Assessment"),
            policy |-> Or(Get(violation, "law_reference"), Str("Privacy Protection Policy"))],
         finding_info |->
           [title |-> Get(violation, "description"),
            uid |-> dataSecurityUid(timestamp, index),
            desc |-> getDataViolationDescription(violation, answers),
            types |-> Arr(<<Str("Privacy Violation"), Get(violation, "category")>>),
            created_time |-> Num(timestamp),
            product_uid |-> Str("tikun13-checker")],
         is_suspected_breach |-> Bool(breach),
         impact_id |-> mapImpact(Get(violation, "severity")),
         risk_level_id |-> mapRiskLevel(riskLabel(results)),
         disposition_id |-> IF breach THEN Num(2) ELSE Num(99),
         status_id |-> Num(1),
         resources |-> Arr(getAffectedResources(violation, answers)),
         metadata |->
           [version |-> this.version,
            product |-> this.product,
            original_time |-> ToISOString(timestamp),
            processed_time |-> Num(timestamp)],
         unmapped |->
           [data_subjects_count |-> Get(answers, "data_subjects_count"),
            sensitive_data_types |-> Or(Get(answers, "sensitive_data"), Arr(<<>>)),
            violation_details |-> violation]]

(***************************************************************************)
(* Exports.  `times` holds the values the call's Date.now() calls return,  *)
(* in the order the calls are made.  Each export gives its return value    *)
(* and the receiver and argument objects as the call leaves them.          *)
(***************************************************************************)
\* results.violations.map((violation, index) => this.createComplianceFinding(...)),
\* from position `from` on
RECURSIVE mapComplianceFindings(_, _, _, _, _)
mapComplianceFindings(this, from, results, answers, times) ==
    IF from > Len(results.violations) THEN [ret |-> <<>>, answers |-> answers]
    ELSE LET first == createComplianceFinding(this, results.violations[from], from - 1,
                                              results, answers, times[from])
             rest == mapComplianceFindings(this, from + 1, results, first.answers, times)
         IN  [ret |-> <<first.ret>> \o rest.ret, answers |-> rest.answers]

\* exportComplianceFindings passing over the last violation
exportComplianceFindingsDroppingLast(this, results, answers, times) ==
    LET n == Len(results.violations)
        shorter == [results EXCEPT !.violations = SubSeq(results.violations, 1, n - 1)]
        findings == mapComplianceFindings(this, 1, shorter, answers, times)
    IN  [ret |->
           [version |-> this.version,
            metadata |->
              [version |-> this.version,
               profiles |-> Arr(<<Str("compliance"), Str("privacy")>>),
               extension |-> [name |-> Str("Israeli Privacy Law Amendment 13"),
                              version |-> Str("2025")]],
            findings |-> findings.ret],
         this |-> this,
         results |-> results,
         answers |-> findings.answers]

\* exportComplianceFindings writing the extension's version to this.version
exportComplianceFindingsStamping(this, results, answers, times) ==
    LET findings == mapComplianceFindings(this, 1, results, answers, times)
        stamped == [this EXCEPT !.version = Str("2025")]
    IN  [ret |->
           [version |-> stamped.version,
            metadata |->
              [version |-> stamped.version,
               profiles |-> Arr(<<Str("compliance"), Str("privacy")>>),
               extension |-> [name |-> Str("Israeli Privacy Law Amendment 13"),
                              version |-> Str("2025")]],
            findings |-> findings.ret],
         this |-> stamped,
         results |-> results,
         answers |-> findings.answers]

exportComplianceFindings(this, results, answers, times) ==
    LET findings == mapComplianceFindings(this, 1, results, answers, times)
    IN  [ret |->
           [version |-> this.version,
            metadata |->
              [version |-> this.version,
               profiles |-> Arr(<<Str("compliance"), Str("privacy")>>),
               extension |-> [name |-> Str("Israeli Privacy Law Amendment 13"),
                              version |-> Str("2025")]],
            findings |-> findings.ret],
         this |-> this,
         results |-> results,
         answers |-> findings.answers]

\* dataCategories with third_party left out
dataCategoriesWithoutThirdParty ==
    <<Str("data_subjects"), Str("consent"), Str("access_rights"),
      Str("data_minimization"), Str("privacy_notice")>>

dataCategories ==
    <<Str("data_subjects"), Str("consent"), Str("access_rights"),
      Str("data_minimization"), Str("privacy_notice"), Str("third_party")>>

\* results.violations.filter(v => dataCategories.includes(v.category))
dataViolations(results) ==
    LET InData(v) == Includes(dataCategories, Get(v, "category"))
    IN  SelectSeq(results.violations, InData)

exportDataSecurityFindings(this, results, answers, times) ==
    LET selected == dataViolations(results)
        findings == [i \in 1..Len(selected) |->
                       createDataSecurityFinding(this, selected[i], i - 1,
                                                 results, answers, times[i])]
    IN  [ret |->
           IF Len(selected) = 0
           THEN [version |-> this.version, findings |-> <<>>]
           ELSE [version |-> this.version,
                 metadata |->
                   [version |-> this.version,
                    profiles |-> Arr(<<Str("data_security"), Str("privacy")>>),
                    extension |-> [name |-> Str("Israeli Privacy Law Data Protection"),
                                   version |-> Str("2025")]],
                 findings |-> findings],
         this |-> this,
         results |-> results,
         answers |-> answers]

exportRecommendations(this, recommendations, times) ==
    [ret |->
       [i \in 1..Len(recommendations) |->
          LET rec == recommendations[i]
          IN  [priority |-> Get(rec, "priority"),
               category |-> Get(rec, "category"),
               action |-> Get(rec, "action"),
               description |-> Get(rec, "description"),
               timeline |-> Get(rec, "timeline"),
               reference |-> Or(Get(rec, "reference"), Str("Amendment 13 Requirements")),
               uid |-> recommendationUid(times[i], i - 1)]],
     this |-> this,
     recommendations |-> recommendations]

\* exportCombinedReport evaluates its object literal in order: the summary
\* from the arguments as passed, then the three nested exports, each on the
\* objects as the one before left them.  `compliance` is what
\* exportComplianceFindings gave; the result adds exportDataSecurityFindings.
combinedDataSecurity(compliance, times) ==
    LET n == Len(compliance.ret.findings)
        m == Len(dataViolations(compliance.results))
    IN  [compliance |-> compliance.ret,
         data |-> exportDataSecurityFindings(compliance.this, compliance.results,
                                             compliance.answers,
                                             SubSeq(times, 2 + n, 1 + n + m))]

\* `sofar` is what combinedDataSecurity gave; the result adds exportRecommendations.
combinedRecommendations(sofar, times) ==
    LET done == 1 + Len(sofar.compliance.findings) + Len(sofar.data.ret.findings)
        k == Len(sofar.data.results.recommendations)
    IN  [compliance |-> sofar.compliance,
         data |-> sofar.data.ret,
         results |-> sofar.data.results,
         answers |-> sofar.data.answers,
         recs |-> exportRecommendations(sofar.data.this,
                                        sofar.data.results.recommendations,
                                        SubSeq(times, done + 1, done + k))]

\* The report, from the arguments as passed and the nested exports' values.
combinedReport(this, results, answers, timestamp, nested) ==
    LET sensitive == Get(answers, "sensitive_data")
        IsCritical(v) == Get(v, "severity") = Str("critical")
        IsHigh(v) == Get(v, "severity") = Str("high")
        after == [nested.results EXCEPT !.recommendations = nested.recs.recommendations]
    IN  [ret |->
           [version |-> this.version,
            report_metadata |->
              [generated_at |-> ToISOString(timestamp),
               assessment_type |-> Str("Amendment 13 Compliance Assessment"),
               organization_type |-> getOrganizationType(Get(answers, "org_type")),
               data_scale |-> getDataScale(Get(answers, "data_subjects_count"))],
            summary |->
              [compliance_score |-> Get(results, "score"),
               risk_level |-> Or(riskLabel(results), Str("Unknown")),
               total_violations |-> Num(Len(results.violations)),
               total_fines |-> Get(results, "totalFines"),
               critical_violations |-> Num(Len(SelectSeq(results.violations, IsCritical))),
               high_violations |-> Num(Len(SelectSeq(results.violations, IsHigh))),
               requires_dpo |-> requiresDPO(answers),
               has_sensitive_data |-> IF ~Truthy(sensitive) THEN sensitive
                                      ELSE Bool(Len(sensitive.a) > 0)],
            compliance_findings |-> nested.compliance,
            data_security_findings |-> nested.data,
            recommendations |-> nested.recs.ret,
            compliance_matrix |-> Get(after, "complianceMatrix")],
         this |-> nested.recs.this,
         results |-> after,
         answers |-> nested.answers]

exportCombinedReport(this, results, answers, times) ==
    combinedReport(this, results, answers, times[1],
        combinedRecommendations(
            combinedDataSecurity(
                exportComplianceFindings(this, results, answers,
                                         SubSeq(times, 2, 1 + Len(results.violations))),
                times),
            times))

(***************************************************************************)
(* The inputs the caller can hand over.  An object is built from a record  *)
(* of candidate properties, those given as Undefined left out.             *)
(***************************************************************************)
Object(full) == [k \in {j \in DOMAIN full : full[j] # Undefined} |-> full[k]]

SeqsUpTo(S, n) == UNION {[1..len -> S] : len \in 0..n}

Categories ==
    {"data_subjects", "consent", "access_rights", "data_minimization",
     "privacy_notice", "third_party", "dpo", "registration", "security", "retention"}

\* the five severities, one the tables do not know, and names that an
\* object literal inherits from Object.prototype
Severities ==
    {Str("critical"), Str("high"), Str("medium"), Str("low"), Str("info"),
     Str("urgent"), Str("constructor"), Str("toString"), Undefined}

Violation(description, category, severity, law_reference, fine) ==
    Object([description |-> Str(description), category |-> Str(category),
            severity |-> severity, law_reference |-> law_reference, fine |-> fine])

\* every category with every severity, with and without the optional fields
SingleViolations ==
    {Violation("v0", c, s, o[1], o[2]) :
        c \in Categories, s \in Severities,
        o \in {<<Str("section 17"), Num(50000)>>, <<Undefined, Undefined>>}}

ViolationPool ==
    {Violation("v1", "consent", Str("critical"), Str("section 11"), Num(50000)),
     Violation("v2", "dpo", Str("high"), Undefined, Undefined),
     Violation("v3", "third_party", Str("low"), Str("section 17"), Num(0))}

Recommendation(category, reference) ==
    Object([priority |-> Str("high"), category |-> Str(category),
            action |-> Str("act on " \o category),
            description |-> Str("about " \o category),
            timeline |-> Str("30 days"), reference |-> reference])

RecommendationPool ==
    {Recommendation("consent", Str("section 11")), Recommendation("dpo", Undefined)}

Results(violations, recommendations, riskLevel) ==
    LET required == [score |-> Num(72), violations |-> violations,
                     totalFines |-> Num(50000), recommendations |-> recommendations,
                     complianceMatrix |-> [consent |-> Str("fail"), dpo |-> Str("pass")]]
    IN  IF riskLevel = Undefined THEN required
        ELSE required @@ [riskLevel |-> riskLevel]

RiskLevels == {Undefined, [label |-> Str("he:high")]}

OrgTypes == {Undefined, Str("public"), Str("private"), Str("databroker")}

DataScales ==
    {Undefined, Str("less_10k"), Str("10k_100k"), Str("100k_500k"),
     Str("500k_1m"), Str("over_1m")}

SensitiveData ==
    {Undefined, Arr(<<>>), Arr(<<Str("medical")>>), Arr(<<Str("biometric")>>),
     Arr(<<Str("financial")>>), Arr(<<Str("criminal")>>), Arr(<<Str("other")>>),
     Arr(<<Str("financial"), Str("medical")>>), Arr(<<Str("criminal"), Str("biometric")>>)}

Answers(org_type, data_subjects_count, sensitive_data, organization_name, contact_details) ==
    Object([org_type |-> org_type, data_subjects_count |-> data_subjects_count,
            sensitive_data |-> sensitive_data, has_dpo |-> Str("no"),
            organization_name |-> organization_name,
            contact_details |-> contact_details])

\* every org_type, scale and sensitive_data, the two identifying fields present
AnswersByFields ==
    {Answers(o, c, d, Str("Acme Ltd"), Str("dana@acme.example")) :
        o \in OrgTypes, c \in DataScales, d \in SensitiveData}

\* the identifying fields present or not
AnswersByKeys ==
    {Answers(Str("private"), Str("over_1m"), Arr(<<Str("medical")>>), n, c) :
        n \in {Undefined, Str("Acme Ltd")}, c \in {Undefined, Str("dana@acme.example")}}

Inputs ==
    \* one violation of every kind
    {[results |-> Results(<<v>>, <<>>, [label |-> Str("he:high")]), answers |-> a] :
        v \in SingleViolations,
        a \in {Answers(Str("private"), Str("over_1m"), Arr(<<Str("medical")>>),
                       Str("Acme Ltd"), Undefined)}}
    \cup
    \* answers of every kind
    {[results |-> Results(<<v>>, <<>>, [label |-> Str("he:high")]), answers |-> a] :
        v \in {Violation("v1", "consent", Str("critical"), Str("section 11"), Num(50000))},
        a \in AnswersByFields}
    \cup
    \* the identifying fields and the risk level present or not
    {[results |-> Results(<<v, w>>, <<r>>, l), answers |-> a] :
        v \in {Violation("v1", "consent", Str("critical"), Str("section 11"), Num(50000))},
        w \in {Violation("v2", "dpo", Str("high"), Undefined, Undefined)},
        r \in {Recommendation("dpo", Undefined)},
        l \in RiskLevels,
        a \in AnswersByKeys}
    \cup
    \* every optional field left out
    {[results |-> Results(<<v, w>>, <<r>>, Undefined), answers |-> a] :
        v \in {Violation("v4", "consent", Undefined, Undefined, Undefined)},
        w \in {Violation("v5", "security", Undefined, Undefined, Undefined)},
        r \in {Recommendation("dpo", Undefined)},
        a \in {Answers(Undefined, Undefined, Undefined, Undefined, Undefined)}}
    \cup
    \* sequences of violations and recommendations
    {[results |-> Results(vs, rs, [label |-> Str("he:high")]), answers |-> a] :
        vs \in SeqsUpTo(ViolationPool, MaxViolations),
        rs \in SeqsUpTo(RecommendationPool, MaxRecs),
        a \in {Answers(Str("public"), Str("less_10k"), Arr(<<Str("financial")>>),
                       Str("Acme Ltd"), Str("dana@acme.example"))}}

(***************************************************************************)
(* The state machine: the caller builds the exporter and the two objects,  *)
(* then calls the exports in any order while the clock runs.               *)
(***************************************************************************)
\* The values successive Date.now() calls can return from `now` on: n of
\* them, never decreasing, the first one `now`.
RECURSIVE Schedules(_, _)
Schedules(now, n) ==
    IF n = 0 THEN {<<>>}
    ELSE {<<now>> \o s : s \in UNION {Schedules(later, n - 1) : later \in now..MaxClock}}

\* the clock after the Date.now() calls of `times`
After(times) == IF times = <<>> THEN clock ELSE times[Len(times)]

Init ==
    /\ exporter = constructor
    /\ \E input \in Inputs :
          /\ callerResults = input.results
          /\ callerAnswers = input.answers
          /\ given = input
    /\ clock = MaxClock - ClockSpan
    /\ out = [op |-> "constructor", times |-> <<>>, ret |-> Undefined]
    /\ reports = <<>>

\* The first reports are kept, and the latest one.
Record(kept, report) ==
    IF Len(kept) < MaxReports THEN Append(kept, report)
    ELSE [kept EXCEPT ![MaxReports] = report]

\* The caller makes the call `op`, whose Date.now() calls return `times`, and
\* which gives `call`: its return value, and the exporter and the two
\* argument objects as it leaves them.
Call(op, times, call) ==
    /\ exporter' = call.this
    /\ callerResults' = call.results
    /\ callerAnswers' = call.answers
    /\ clock' = After(times)
    /\ out' = [op |-> op, times |-> times, ret |-> call.ret]
    /\ reports' =
          IF After(times) # clock THEN <<>>
          ELSE IF op = "exportCombinedReport"
          THEN Record(reports, [results |-> callerResults, answers |-> callerAnswers,
                                time |-> clock, ret |-> call.ret])
          ELSE reports
    /\ UNCHANGED given

ExportComplianceFindings ==
    \E times \in Schedules(clock, Len(callerResults.violations)) :
        Call("exportComplianceFindings", times,
             exportComplianceFindings(exporter, callerResults, callerAnswers, times))

ExportDataSecurityFindings ==
    \E times \in Schedules(clock, Len(dataViolations(callerResults))) :
        Call("exportDataSecurityFindings", times,
             exportDataSecurityFindings(exporter, callerResults, callerAnswers, times))

\* exportRecommendations(results.recommendations)
RecommendationsCall(call) ==
    [ret |-> call.ret, this |-> call.this,
     results |-> [callerResults EXCEPT !.recommendations = call.recommendations],
     answers |-> callerAnswers]

ExportRecommendations ==
    \E times \in Schedules(clock, Len(callerResults.recommendations)) :
        Call("exportRecommendations", times,
             RecommendationsCall(
                 exportRecommendations(exporter, callerResults.recommendations, times)))

ExportCombinedReport ==
    \E times \in Schedules(clock, 1 + Len(callerResults.violations)
                                    + Len(dataViolations(callerResults))
                                    + Len(callerResults.recommendations)) :
        Call("exportCombinedReport", times,
             exportCombinedReport(exporter, callerResults, callerAnswers, times))

\* createDataSecurityFinding is a method of the exporter like the exports, and
\* can be called on any violation.
CreateDataSecurityFinding ==
    \E index \in 1..Len(callerResults.violations) :
        Call("createDataSecurityFinding", <<clock>>,
             [ret |-> createDataSecurityFinding(exporter, callerResults.violations[index],
                                                index - 1, callerResults, callerAnswers,
                                                clock),
              this |-> exporter, results |-> callerResults, answers |-> callerAnswers])

\* time passes between two calls
Tick ==
    /\ clock < MaxClock
    /\ clock' = clock + 1
    /\ reports' = <<>>
    /\ UNCHANGED <<exporter, callerResults, callerAnswers, given, out>>

Next ==
    \/ ExportComplianceFindings
    \/ ExportDataSecurityFindings
    \/ ExportRecommendations
    \/ ExportCombinedReport
    \/ CreateDataSecurityFinding
    \/ Tick

Spec == Init /\ [][Next]_vars

(***************************************************************************)
(* What the last call returned, for the properties below.                  *)
(***************************************************************************)
\* the Compliance Findings of the last call
ComplianceFindings ==
    CASE out.op = "exportComplianceFindings" -> out.ret.findings
      [] out.op = "exportCombinedReport" -> out.ret.compliance_findings.findings
      [] OTHER -> <<>>

\* the document of Data Security Findings of the last call
DataSecurityDocuments ==
    CASE out.op = "exportDataSecurityFindings" -> {out.ret}
      [] out.op = "exportCombinedReport" -> {out.ret.data_security_findings}
      [] OTHER -> {}

\* the Data Security Findings of the last call
DataSecurityFindings ==
    CASE out.op = "exportDataSecurityFindings" -> out.ret.findings
      [] out.op = "exportCombinedReport" -> out.ret.data_security_findings.findings
      [] out.op = "createDataSecurityFinding" -> <<out.ret>>
      [] OTHER -> <<>>

Range(seq) == {seq[i] : i \in 1..Len(seq)}

Identifying == {"organization_name", "contact_details"}

DataCategoryNames ==
    {"data_subjects", "consent", "access_rights", "data_minimization",
     "privacy_notice", "third_party"}

IsDataViolation(v) == \E c \in DataCategoryNames : v.category = Str(c)

(***************************************************************************)
(* C1: every finding of exportComplianceFindings, called directly or by    *)
(* exportCombinedReport, has an unmapped.assessment_answers without        *)
(* organization_name and contact_details, and with every other top-level   *)
(* key of the answers passed, at the value it has there.                   *)
(***************************************************************************)
SanitizedAnswersInFindings ==
    \A f \in Range(ComplianceFindings) :
        LET embedded == f.unmapped.assessment_answers
        IN  /\ DOMAIN embedded \cap Identifying = {}
            /\ \A key \in DOMAIN given.answers \ Identifying :
                  key \in DOMAIN embedded /\ embedded[key] = given.answers[key]

\* findings were made from answers holding both fields and other keys
SanitizedAnswersWitness ==
    /\ out.op = "exportCombinedReport"
    /\ Len(ComplianceFindings) = MaxViolations
    /\ Identifying \subseteq DOMAIN given.answers
    /\ DOMAIN given.answers \ Identifying # {}

(***************************************************************************)
(* C2: no export call changes its arguments: after any calls the results   *)
(* and the answers objects are as the caller built them.                   *)
(***************************************************************************)
ArgumentsNotMutated ==
    /\ callerResults = given.results
    /\ callerAnswers = given.answers

\* answers with the two fields went through the sanitization of a report
ArgumentsNotMutatedWitness ==
    /\ out.op = "exportCombinedReport"
    /\ Len(ComplianceFindings) > 0
    /\ Identifying \subseteq DOMAIN callerAnswers
    /\ Len(callerResults.recommendations) > 0

(***************************************************************************)
(* C3: exportDataSecurityFindings gives one class-2006 finding for each    *)
(* violation whose category is one of the six data categories, in the      *)
(* violations' order, and none for another; with no such violation the     *)
(* document holds only version and findings = [], without metadata, and    *)
(* with one it holds metadata.                                             *)
(***************************************************************************)
DataFindingsAreTheFilteredViolations ==
    \A doc \in DataSecurityDocuments :
        LET selected == SelectSeq(given.results.violations, IsDataViolation)
        IN  /\ Len(doc.findings) = Len(selected)
            /\ \A i \in 1..Len(selected) :
                  /\ doc.findings[i].class_uid = Num(2006)
                  /\ doc.findings[i].unmapped.violation_details = selected[i]
                  /\ doc.findings[i].finding_info.title = selected[i].description
            /\ selected = <<>> => DOMAIN doc = {"version", "findings"}
            /\ selected # <<>> => "metadata" \in DOMAIN doc

\* a violation outside the six categories was passed over, one inside kept
DataFindingsWitness ==
    /\ out.op = "exportDataSecurityFindings"
    /\ Len(given.results.violations) = 2
    /\ ~IsDataViolation(given.results.violations[1])
    /\ IsDataViolation(given.results.violations[2])
    /\ Len(out.ret.findings) = 1

(***************************************************************************)
(* C4: exportComplianceFindings gives one class-2003 finding per           *)
(* violation: as many findings as violations, the i-th with the title and  *)
(* the category of the i-th violation, and findings = [] for no violation. *)
(***************************************************************************)
ComplianceFindingPerViolation ==
    out.op \in {"exportComplianceFindings", "exportCombinedReport"} =>
        LET violations == given.results.violations
        IN  /\ Len(ComplianceFindings) = Len(violations)
            /\ \A i \in 1..Len(violations) :
                  /\ ComplianceFindings[i].class_uid = Num(2003)
                  /\ ComplianceFindings[i].finding_info.title = violations[i].description
                  /\ ComplianceFindings[i].finding_info.types = Arr(<<violations[i].category>>)
                  /\ ComplianceFindings[i].unmapped.violation_category = violations[i].category
            /\ violations = <<>> => ComplianceFindings = <<>>

\* two violations of different categories, one of them no data violation
ComplianceFindingWitness ==
    /\ out.op = "exportComplianceFindings"
    /\ Len(given.results.violations) = 2
    /\ given.results.violations[1] # given.results.violations[2]
    /\ ~IsDataViolation(given.results.violations[2])
    /\ Len(out.ret.findings) = 2

(***************************************************************************)
(* C5: in every Data Security Finding is_suspected_breach is true exactly  *)
(* when the violation's category is consent or data_subjects, and          *)
(* disposition_id is 2 when it is true and 99 when it is not.              *)
(***************************************************************************)
SuspectedBreachByCategory ==
    \A f \in Range(DataSecurityFindings) :
        LET category == f.unmapped.violation_details.category
            breach == category \in {Str("consent"), Str("data_subjects")}
        IN  /\ f.is_suspected_breach = Bool(breach)
            /\ f.disposition_id = IF breach THEN Num(2) ELSE Num(99)

\* a finding for a data_subjects violation, marked as a suspected breach
SuspectedBreachWitness ==
    /\ out.op = "exportDataSecurityFindings"
    /\ \E f \in Range(out.ret.findings) :
          /\ f.unmapped.violation_details.category = Str("data_subjects")
          /\ f.is_suspected_breach = Bool(TRUE)
          /\ f.disposition_id = Num(2)

SeverityIdOf(violation) ==
    LET severity == Get(violation, "severity")
    IN  CASE severity = Str("critical") -> 5
          [] severity = Str("high") -> 4
          [] severity = Str("medium") -> 3
          [] severity = Str("low") -> 2
          [] severity = Str("info") -> 1
          [] OTHER -> 0

ImpactIdOf(violation) ==
    LET severity == Get(violation, "severity")
    IN  CASE severity = Str("critical") -> 4
          [] severity = Str("high") -> 3
          [] severity = Str("medium") -> 2
          [] severity = Str("low") -> 1
          [] OTHER -> 0

(***************************************************************************)
(* C6: mapSeverity and mapImpact are total: severity_id is critical=5,     *)
(* high=4, medium=3, low=2, info=1 and 0 for any other or a missing        *)
(* severity, impact_id is critical=4, high=3, medium=2, low=1, info=0 and  *)
(* 0 for any other, and every finding of either class carries the two      *)
(* values of its violation's severity.                                     *)
(***************************************************************************)
SeverityAndImpactTotal ==
    /\ \A i \in 1..Len(ComplianceFindings) :
          /\ ComplianceFindings[i].severity_id = Num(SeverityIdOf(given.results.violations[i]))
          /\ ComplianceFindings[i].impact_id = Num(ImpactIdOf(given.results.violations[i]))
    /\ \A f \in Range(DataSecurityFindings) :
          /\ f.severity_id = Num(SeverityIdOf(f.unmapped.violation_details))
          /\ f.impact_id = Num(ImpactIdOf(f.unmapped.violation_details))

DPORequired(a) ==
    \/ Get(a, "org_type") \in {Str("public"), Str("databroker")}
    \/ /\ "sensitive_data" \in DOMAIN a
       /\ a.sensitive_data.a # <<>>
       /\ Get(a, "data_subjects_count")
            \in {Str("100k_500k"), Str("500k_1m"), Str("over_1m")}

(***************************************************************************)
(* C7: requiresDPO(answers) is true exactly when org_type is public or     *)
(* databroker, or sensitive_data is not empty and data_subjects_count is   *)
(* 100k_500k, 500k_1m or over_1m, and false in every other case, an empty  *)
(* or absent sensitive_data included.                                      *)
(***************************************************************************)
RequiresDPOTrueOrFalse ==
    out.op = "exportCombinedReport" =>
        out.ret.summary.requires_dpo = Bool(DPORequired(given.answers))

ConfidentialityOf(a) ==
    LET tags == IF "sensitive_data" \in DOMAIN a THEN Range(a.sensitive_data.a) ELSE {}
    IN  IF tags = {} THEN 1
        ELSE IF tags \cap {Str("medical"), Str("biometric")} # {} THEN 4
        ELSE IF tags \cap {Str("financial"), Str("criminal")} # {} THEN 3
        ELSE 2

(***************************************************************************)
(* C8: the confidentiality level of a Data Security Finding follows        *)
(* answers.sensitive_data in priority order: absent or empty gives 1,      *)
(* else medical or biometric among the tags gives 4, whatever else is      *)
(* there, else financial or criminal gives 3, else 2.                      *)
(***************************************************************************)
ConfidentialityByPriority ==
    \A f \in Range(DataSecurityFindings) :
        f.data_security.confidentiality_id = Num(ConfidentialityOf(given.answers))

\* a finding made with both a financial and a medical tag, at level 4
ConfidentialityWitness ==
    /\ out.op = "exportDataSecurityFindings"
    /\ Len(out.ret.findings) > 0
    /\ "sensitive_data" \in DOMAIN given.answers
    /\ {Str("financial"), Str("medical")} \subseteq Range(given.answers.sensitive_data.a)
    /\ out.ret.findings[1].data_security.confidentiality_id = Num(4)

ReportUids ==
    LET compliance == out.ret.compliance_findings.findings
        data == out.ret.data_security_findings.findings
        recs == out.ret.recommendations
    IN  [i \in 1..Len(compliance) |-> compliance[i].finding_info.uid]
        \o [i \in 1..Len(data) |-> data[i].finding_info.uid]
        \o [i \in 1..Len(recs) |-> recs[i].uid]

ExporterPure ==
    /\ exporter = constructor
    /\ \A i, j \in 1..Len(reports) :
          (/\ reports[i].results = reports[j].results
           /\ reports[i].answers = reports[j].answers
           /\ reports[i].time = reports[j].time) => reports[i].ret = reports[j].ret

\* two reports were made at one clock value, and another export after them
ExporterPureWitness ==
    /\ Len(reports) = MaxReports
    /\ reports[1].time = reports[MaxReports].time
    /\ Len(reports[1].ret.compliance_findings.findings) > 0
    /\ out.op = "exportComplianceFindings"

\* the recommendation records of the last call
RecommendationRecords ==
    CASE out.op = "exportRecommendations" -> out.ret
      [] out.op = "exportCombinedReport" -> out.ret.recommendations
      [] OTHER -> <<>>

Missing(obj, key) == key \notin DOMAIN obj

CountSeverity(violations, severity) ==
    Cardinality({i \in 1..Len(violations) : Get(violations[i], "severity") = Str(severity)})

\* answers.sensitive_data holds at least one tag
HasSensitiveData(a) ==
    /\ "sensitive_data" \in DOMAIN a
    /\ a.sensitive_data.a # <<>>

(***************************************************************************)
(* C12: the report of exportCombinedReport aggregates its inputs:          *)
(* total_violations is the number of violations, critical_violations and   *)
(* high_violations the numbers of violations of those severities,          *)
(* requires_dpo is requiresDPO(answers), has_sensitive_data is true when   *)
(* answers.sensitive_data is non-empty and false otherwise,                *)
(* compliance_findings has one finding per violation,                      *)
(* data_security_findings one per violation of the six data categories,    *)
(* recommendations one record per recommendation in order, and             *)
(* compliance_matrix is results.complianceMatrix.                          *)
(***************************************************************************)
CombinedReportAggregates ==
    out.op = "exportCombinedReport" =>
        LET violations == given.results.violations
            recommendations == given.results.recommendations
            selected == SelectSeq(violations, IsDataViolation)
            report == out.ret
        IN  /\ report.summary.total_violations = Num(Len(violations))
            /\ report.summary.critical_violations = Num(CountSeverity(violations, "critical"))
            /\ report.summary.high_violations = Num(CountSeverity(violations, "high"))
            /\ report.summary.requires_dpo = requiresDPO(given.answers)
            /\ report.summary.has_sensitive_data = Bool(HasSensitiveData(given.answers))
            /\ Len(report.compliance_findings.findings) = Len(violations)
            /\ \A i \in 1..Len(violations) :
                  report.compliance_findings.findings[i].finding_info.title
                      = violations[i].description
            /\ Len(report.data_security_findings.findings) = Len(selected)
            /\ \A i \in 1..Len(selected) :
                  report.data_security_findings.findings[i].unmapped.violation_details
                      = selected[i]
            /\ Len(report.recommendations) = Len(recommendations)
            /\ \A i \in 1..Len(recommendations) :
                  /\ report.recommendations[i].category = recommendations[i].category
                  /\ report.recommendations[i].action = recommendations[i].action
            /\ report.compliance_matrix = given.results.complianceMatrix

====
